---------------------------- MODULE Spec2Model ----------------------------
(***************************************************************************)
(* Model of the archive-version check of src/src/index.ts: the game table  *)
(* archiveData, the state-change callback checkForErrors with its await    *)
(* points, the header reader streamArchiveVersion with the events of its   *)
(* read stream, and the dialog of showMultiErrorDetailsDialog.             *)
(*                                                                         *)
(* Strings are sequences of one-character strings, so that toLowerCase,    *)
(* path.extname, String.replace and startsWith are computed, not assumed.  *)
(* An optional value (undefined in the source) is the empty sequence, a    *)
(* present value v is <<v>>.                                               *)
(***************************************************************************)
EXTENDS Integers, Sequences, FiniteSets, TLC

VARIABLES
    activeGameId,   \* selectors.activeGameId(state)
    pluginInfo,     \* state.session.plugins.pluginInfo, handed to the callback as cur
    mods,           \* state.persistent.mods[activeGameId]
    discovery,      \* state.settings.gameMode.discovered[activeGameId].path
    disk,           \* the data folder: its listing and the content of its files
    started,        \* number of invocations of checkForErrors so far
    batch,          \* the local state of each invocation of checkForErrors
    notifications,  \* the notifications shown, by id
    fx,             \* per invocation, the effects it has had, in order
    sortTies,       \* how Array.prototype.sort of the engine leaves equal keys
    dialog          \* the dialog showMultiErrorDetailsDialog has opened, if any

vars == <<activeGameId, pluginInfo, mods, discovery, disk, started, batch,
          notifications, fx, sortTies, dialog>>

-----------------------------------------------------------------------------
(* Bounds of the model.                                                    *)

NumBatches == 2     \* invocations of checkForErrors in one behaviour
MaxFileLen == 10    \* longest archive file drawn for the header reader

-----------------------------------------------------------------------------
(* Optional values and small helpers.                                      *)

None == <<>>
Some(v) == <<v>>
IsSome(o) == o # <<>>
Get(o) == o[1]

Min(a, b) == IF a < b THEN a ELSE b

RECURSIVE SumSeq(_)
SumSeq(s) == IF s = <<>> THEN 0 ELSE s[1] + SumSeq(Tail(s))

RECURSIVE Concat(_)
Concat(ss) == IF ss = <<>> THEN <<>> ELSE ss[1] \o Concat(Tail(ss))

-----------------------------------------------------------------------------
(* Strings.                                                                *)

UpperChars == <<"A","B","C","D","E","F","G","H","I","J","K","L","M",
                "N","O","P","Q","R","S","T","U","V","W","X","Y","Z">>
LowerChars == <<"a","b","c","d","e","f","g","h","i","j","k","l","m",
                "n","o","p","q","r","s","t","u","v","w","x","y","z">>

LowerChar(c) ==
    IF \E i \in 1..26 : UpperChars[i] = c
    THEN LowerChars[CHOOSE i \in 1..26 : UpperChars[i] = c]
    ELSE c

\* String.prototype.toLowerCase
toLowerCase(s) == [i \in 1..Len(s) |-> LowerChar(s[i])]

\* String.prototype.startsWith
startsWith(s, p) == Len(p) <= Len(s) /\ SubSeq(s, 1, Len(p)) = p

IsSep(c) == c = "/" \/ c = "\\"

\* path.basename: what follows the last separator
basename(p) ==
    LET seps == {i \in 1..Len(p) : IsSep(p[i])}
    IN  IF seps = {} THEN p
        ELSE SubSeq(p, (CHOOSE i \in seps : \A j \in seps : j <= i) + 1, Len(p))

\* path.extname: from the last "." of the base name to its end; empty when
\* there is no ".", when the only "." is the first character, and for ".."
extname(p) ==
    LET b    == basename(p)
        dots == {i \in 1..Len(b) : b[i] = "."}
        last == CHOOSE i \in dots : \A j \in dots : j <= i
    IN  IF dots = {} THEN <<>>
        ELSE IF last = 1 THEN <<>>
        ELSE IF b = <<".", ".">> THEN <<>>
        ELSE SubSeq(b, last, Len(b))

\* String.prototype.replace(sub, ''): the first occurrence of sub is removed
replaceFirst(s, sub) ==
    LET at == {i \in 1..(Len(s) - Len(sub) + 1) : SubSeq(s, i, i + Len(sub) - 1) = sub}
        first == CHOOSE i \in at : \A j \in at : i <= j
    IN  IF sub = <<>> \/ at = {} THEN s
        ELSE SubSeq(s, 1, first - 1) \o SubSeq(s, first + Len(sub), Len(s))

-----------------------------------------------------------------------------
(* The game table.                                                         *)

archiveData == <<
    [gameId |-> "skyrim",     gameName |-> "Skyrim (2011)",          version |-> 104, type |-> "BSA"],
    [gameId |-> "skyrimse",   gameName |-> "Skyrim Special Edition", version |-> 105, type |-> "BSA"],
    [gameId |-> "skyrimvr",   gameName |-> "Skyrim VR",              version |-> 105, type |-> "BSA"],
    [gameId |-> "oblivion",   gameName |-> "Oblivion",               version |-> 103, type |-> "BSA"],
    [gameId |-> "fallout4",   gameName |-> "Fallout 4",              version |-> 1,   type |-> "BA2"],
    [gameId |-> "fallout4vr", gameName |-> "Fallout 4 VR",           version |-> 1,   type |-> "BA2"],
    [gameId |-> "fallout76",  gameName |-> "Fallout 76",             version |-> 1,   type |-> "BA2"] >>

\* Array.prototype.find: the first element of s that satisfies the test, or
\* undefined; hits are the indices of the elements that satisfy it
Find(s, hits) ==
    IF hits = {} THEN None
    ELSE Some(s[CHOOSE i \in hits : \A j \in hits : i <= j])

\* a variant that falls back to the first game of the table
GameDataOrFirst(id) ==
    LET hits == {i \in 1..Len(archiveData) : archiveData[i].gameId = id}
    IN  IF hits # {} THEN Find(archiveData, hits) ELSE Some(archiveData[1])

\* archiveData.find(g => g.gameId === activeGameId)
GameDataOf(id) ==
    Find(archiveData, {i \in 1..Len(archiveData) : archiveData[i].gameId = id})

-----------------------------------------------------------------------------
(* streamArchiveVersion: the computation of its 'data' handler.            *)

HeaderLen == 9      \* Buffer.alloc(9), and the stream's {start: 0, end: 8}
VersionFrom == 4    \* data.slice(4, 8)
VersionTo == 8

\* fs.createReadStream(filePath, {start: 0, end: 8}) delivers the bytes at
\* offsets 0..8 that the file has, in one chunk
ReadChunk(bytes) == SubSeq(bytes, 1, Min(Len(bytes), HeaderLen))

\* Buffer.fill(chunk): the buffer is filled with the chunk, repeated as often
\* as it takes
BufferFill(n, chunk) == [i \in 1..n |-> chunk[((i - 1) % Len(chunk)) + 1]]

\* Buffer.slice(from, to), offsets counted from 0, to exclusive
Slice(buf, from, to) == SubSeq(buf, from + 1, to)

\* a variant whose window ends one byte early
VersionOfChunkShort(chunk) ==
    SumSeq(SubSeq([i \in 1..9 |-> chunk[((i - 1) % Len(chunk)) + 1]], 5, 7))

\* versionBytes.reduce((accum, entry) => accum += entry, 0): a sum of numbers,
\* not of bytes, so nothing wraps
VersionOfChunk(chunk) ==
    SumSeq(Slice(BufferFill(HeaderLen, chunk), VersionFrom, VersionTo))

-----------------------------------------------------------------------------
(* checkForErrors: the plugins it keeps and the candidates it derives.     *)

\* the permutations of 1..n
Perms(n) == {p \in [1..n -> 1..n] : \A i, j \in 1..n : i # j => p[i] # p[j]}

\* .sort((a, b) => a.loadOrder > b.loadOrder ? 1 : -1): the results the sort
\* can give. The comparator never answers 0, so the order of two plugins with
\* the same loadOrder is up to the engine: every ascending order is possible.
SortedByLoadOrder(ps) ==
    { [i \in 1..Len(ps) |-> ps[p[i]]] :
        p \in {q \in Perms(Len(ps)) :
                 \A i, j \in 1..Len(ps) :
                    i < j => ps[q[i]].loadOrder <= ps[q[j]].loadOrder} }

\* What the engine does with two plugins of the same loadOrder, for which the
\* comparator answers -1 whichever comes first: an insertion sort that asks
\* comparefn(earlier, later) keeps their order, one that asks
\* comparefn(later, earlier) reverses it.
SortTies == {"keep", "reverse"}

\* a variant that sorts by descending loadOrder
SortPluginsDescending(ps, ties) ==
    LET n == Len(ps)
        Before(i, j) ==
            \/ ps[i].loadOrder > ps[j].loadOrder
            \/ /\ ps[i].loadOrder = ps[j].loadOrder
               /\ IF ties = "keep" THEN i < j ELSE i > j
        p == CHOOSE q \in Perms(n) : \A i, j \in 1..n : i < j => Before(q[i], q[j])
    IN  [i \in 1..n |-> ps[p[i]]]

\* .sort(...) as one engine computes it: the one ascending order in which
\* plugins of the same loadOrder are left as ties says
SortPlugins(ps, ties) ==
    LET n == Len(ps)
        Before(i, j) ==
            \/ ps[i].loadOrder < ps[j].loadOrder
            \/ /\ ps[i].loadOrder = ps[j].loadOrder
               /\ IF ties = "keep" THEN i < j ELSE i > j
        p == CHOOSE q \in Perms(n) : \A i, j \in 1..n : i < j => Before(q[i], q[j])
    IN  [i \in 1..n |-> ps[p[i]]]

\* path.join(a, b) on Windows
pathJoin(a, b) == a \o <<"\\">> \o b

\* discovery ? path.join(discovery, 'data') : undefined; the empty string is
\* as good as undefined
DataFolderOf(path) ==
    IF IsSome(path) /\ Get(path) # <<>>
    THEN Some(pathJoin(Get(path), <<"d", "a", "t", "a">>))
    ELSE None

\* p => !p.isNative && p.loadsArchive && p.enabled === true
IsArchiveLoader(p) == ~p.isNative /\ p.loadsArchive /\ p.enabled = TRUE

\* a variant that keeps disabled plugins
ArchiveLoadersEnabledOrNot(plugins) ==
    LET Keep(p) == ~p.isNative /\ p.loadsArchive IN SelectSeq(plugins, Keep)

\* plugins.filter(...)
ArchiveLoaders(plugins) == SelectSeq(plugins, IsArchiveLoader)

\* f => ['.ba2', '.bsa'].includes(path.extname(f))
IsDataArchive(f) == extname(f) \in { <<".", "b", "a", "2">>, <<".", "b", "s", "a">> }

\* dataFiles.filter(...)
DataArchives(dataFiles) == SelectSeq(dataFiles, IsDataArchive)

\* plugin.name.replace(path.extname(plugin.name), '').toLowerCase()
PName(plugin) == toLowerCase(replaceFirst(plugin.name, extname(plugin.name)))

\* a => path.basename(a).toLowerCase().startsWith(pName)
MatchesPlugin(a, plugin) == startsWith(toLowerCase(basename(a)), PName(plugin))

\* dataArchives.filter(...).map(a => ({ name: a, plugin: plugin.name }))
CandidatesOf(plugin, dataArchives) ==
    LET Hit(a) == MatchesPlugin(a, plugin)
        hits   == SelectSeq(dataArchives, Hit)
    IN  [i \in 1..Len(hits) |-> [name |-> hits[i], plugin |-> plugin.name]]

\* a variant that keeps, of the candidates of one archive, the first only
ArchivesToCheckOncePerArchive(archiveLoaders, dataFiles) ==
    LET all == Concat([i \in 1..Len(archiveLoaders) |->
                          CandidatesOf(archiveLoaders[i], DataArchives(dataFiles))])
        first == {i \in 1..Len(all) : \A j \in 1..(i - 1) : all[j].name # all[i].name}
        RECURSIVE Keep(_)
        Keep(i) == IF i > Len(all) THEN <<>>
                   ELSE (IF i \in first THEN <<all[i]>> ELSE <<>>) \o Keep(i + 1)
    IN  Keep(1)

\* archiveLoaders.map(...).reduce((prev, cur) => prev.concat(cur), [])
ArchivesToCheck(archiveLoaders, dataFiles) ==
    Concat([i \in 1..Len(archiveLoaders) |->
                CandidatesOf(archiveLoaders[i], DataArchives(dataFiles))])

\* mods[plugin.modName]
ModOf(modTable, plugin) ==
    IF plugin.modName \in DOMAIN modTable THEN Some(modTable[plugin.modName]) ELSE None

-----------------------------------------------------------------------------
(* The state of one invocation of checkForErrors, and its effects.         *)

Batches == 1..NumBatches

NotificationIds == {"archive-errors", "checking-archives-all"}

\* An invocation that has not been made yet.
IdleBatch ==
    [ pc              |-> "idle",   \* idle, readdir, map, read, finish, done
      game            |-> "",       \* activeGameId
      gameData        |-> None,
      pluginsObj      |-> None,     \* the argument of the invocation
      plugins         |-> <<>>,
      archiveLoaders  |-> <<>>,
      mods            |-> <<>>,
      dataFolder      |-> None,
      archivesToCheck |-> <<>>,
      pos             |-> 0,
      idx             |-> 0,        \* the candidate mapSeries is at (from 1)
      results         |-> <<>>,     \* what the mapper returned so far, per candidate
      stream          |-> "none",   \* none, opening, open, closed
      promise         |-> "none",   \* none, pending, resolved
      alone           |-> FALSE ]   \* no other invocation was under way at the call

\* One effect of an invocation: a call of the api, of log, or a step of a read.
Effect(op, id, name, num, den) ==
    [op |-> op, id |-> id, name |-> name, num |-> num, den |-> den]

Dismissed(id)            == Effect("dismissNotification", id, <<>>, 0, 1)
\* a variant that counts the candidate before it reports it
ProgressOfNext(name, pos, len) ==
    Effect("addNotification", "checking-archives-all", name, (pos + 1) * 100, len)

Progress(name, pos, len) == Effect("addNotification", "checking-archives-all", name, pos * 100, len)
Sent(n)                  == Effect("sendNotification", "archive-errors", <<>>, n, 1)
Logged(level, n)         == Effect("log", level, <<>>, n, 1)
ReadStarted(i, name)     == Effect("readStart", "", name, i, 1)
ReadResolved(i, version) == Effect("readResolved", "", <<>>, i, version)

\* the file at a path of the data folder: a file the folder does not have
\* cannot be opened
FileAt(path) ==
    IF basename(path) \in DOMAIN disk.files THEN disk.files[basename(path)]
    ELSE [kind |-> "ENOENT", bytes |-> <<>>]

\* path.join(dataFolder, archive.name) of the candidate invocation b is at
ArchivePath(b) ==
    pathJoin(Get(batch[b].dataFolder), batch[b].archivesToCheck[batch[b].idx].name)

\* .filter(i => !!i) on the mapper's results
Issues(results) ==
    LET kept == SelectSeq(results, IsSome)
    IN  [i \in 1..Len(kept) |-> Get(kept[i])]

-----------------------------------------------------------------------------
(* checkForErrors, from the state change to its first await (lines 71-103) *)

\* The state changes that call the callback: the plugin info is set anew
\* with no plugin changed, or with one plugin enabled or disabled.
PluginChanges(info) ==
    IF ~IsSome(info) THEN {info}
    ELSE {info} \cup
         { Some([Get(info) EXCEPT ![i].enabled = ~Get(info)[i].enabled]) :
             i \in 1..Len(Get(info)) }

\* a variant that dismisses 'archive-errors' after the early returns for the
\* game and the plugin info
StateChangeDismissingLate(b) ==
    /\ b = started + 1
    /\ b \in Batches
    /\ batch[b].pc = "idle"
    /\ \E cur \in PluginChanges(pluginInfo) :
          LET gameData == GameDataOf(activeGameId)
              proceed  == IsSome(gameData) /\ IsSome(cur)
              sorted   == IF IsSome(cur) THEN SortPlugins(Get(cur), sortTies) ELSE <<>>
              alone    == \A o \in Batches \ {b} : batch[o].pc \in {"idle", "done"}
          IN
          /\ pluginInfo' = cur
          /\ started' = b
          /\ notifications' = IF proceed
                              THEN [notifications EXCEPT !["archive-errors"] = None]
                              ELSE notifications
          /\ fx' = [fx EXCEPT ![b] = IF proceed THEN <<Dismissed("archive-errors")>>
                                                ELSE <<>>]
          /\ batch' = [batch EXCEPT ![b] =
                IF ~proceed
                THEN [@ EXCEPT !.pc = "done", !.game = activeGameId,
                               !.gameData = gameData, !.pluginsObj = cur,
                               !.alone = alone]
                ELSE [@ EXCEPT !.pc = "readdir",
                               !.game = activeGameId,
                               !.gameData = gameData,
                               !.pluginsObj = cur,
                               !.alone = alone,
                               !.plugins = sorted,
                               !.archiveLoaders = ArchiveLoaders(sorted),
                               !.mods = mods,
                               !.dataFolder = DataFolderOf(discovery)] ]
    /\ UNCHANGED <<activeGameId, mods, discovery, disk, sortTies, dialog>>

StateChange(b) ==
    /\ b = started + 1
    /\ b \in Batches
    /\ batch[b].pc = "idle"
    /\ \E cur \in PluginChanges(pluginInfo) :
          LET gameData == GameDataOf(activeGameId)
              proceed  == IsSome(gameData) /\ IsSome(cur)
              sorted   == IF IsSome(cur) THEN SortPlugins(Get(cur), sortTies) ELSE <<>>
              alone    == \A o \in Batches \ {b} : batch[o].pc \in {"idle", "done"}
          IN
          /\ pluginInfo' = cur
          /\ started' = b
          \* api.dismissNotification('archive-errors')
          /\ notifications' = [notifications EXCEPT !["archive-errors"] = None]
          /\ fx' = [fx EXCEPT ![b] = <<Dismissed("archive-errors")>>]
          /\ batch' = [batch EXCEPT ![b] =
                IF ~proceed
                THEN [@ EXCEPT !.pc = "done", !.game = activeGameId,
                               !.gameData = gameData, !.pluginsObj = cur,
                               !.alone = alone]
                ELSE [@ EXCEPT !.pc = "readdir",
                               !.game = activeGameId,
                               !.gameData = gameData,
                               !.pluginsObj = cur,
                               !.alone = alone,
                               !.plugins = sorted,
                               !.archiveLoaders = ArchiveLoaders(sorted),
                               !.mods = mods,
                               !.dataFolder = DataFolderOf(discovery)] ]
    /\ UNCHANGED <<activeGameId, mods, discovery, disk, sortTies, dialog>>

-----------------------------------------------------------------------------
(* fs.readdirAsync settles (lines 103-117, 178-181)                        *)

\* a variant that fails only when the folder cannot be listed
ReaddirFailsOnDiskOnly(b) == ~IsSome(disk.listing)

\* fs.readdirAsync(dataFolder) rejects: dataFolder is undefined, or the folder
\* cannot be listed
ReaddirFails(b) == ~IsSome(batch[b].dataFolder) \/ ~IsSome(disk.listing)

ReaddirDone(b) ==
    /\ batch[b].pc = "readdir"
    /\ LET failed == ReaddirFails(b)
           archivesToCheck ==
               IF failed THEN <<>>
               ELSE ArchivesToCheck(batch[b].archiveLoaders, Get(disk.listing))
       IN
       IF failed
       THEN \* catch (err): log('error', 'Error checking for BSA errors', err)
            /\ batch' = [batch EXCEPT ![b].pc = "done"]
            /\ fx' = [fx EXCEPT ![b] = Append(@, Logged("error", 0))]
       ELSE IF archivesToCheck = <<>>
       THEN /\ batch' = [batch EXCEPT ![b].pc = "done"]
            /\ fx' = fx
       ELSE /\ batch' = [batch EXCEPT ![b].pc = "map",
                                      ![b].archivesToCheck = archivesToCheck,
                                      ![b].pos = 0,
                                      ![b].idx = 1]
            /\ fx' = fx
    /\ UNCHANGED <<activeGameId, pluginInfo, mods, discovery, disk, sortTies, dialog, started,
                   notifications>>

-----------------------------------------------------------------------------
(* The mapper of Bluebird.mapSeries, up to its await (lines 131-134)       *)

\* a variant that does not wait for the read before: it calls the mapper for
\* the next candidate while the promise of the current one is pending
MapperStartUnawaited(b) ==
    /\ batch[b].pc \in {"map", "read"}
    /\ LET i       == IF batch[b].pc = "read" THEN batch[b].idx + 1 ELSE batch[b].idx
           len     == Len(batch[b].archivesToCheck)
       IN
       /\ i <= len
       /\ notifications' = [notifications EXCEPT !["checking-archives-all"] =
              Some([owner |-> b, kind |-> "activity",
                    name |-> batch[b].archivesToCheck[i].name,
                    num |-> batch[b].pos * 100, den |-> len])]
       /\ batch' = [batch EXCEPT ![b].pos = @ + 1,
                                 ![b].idx = i,
                                 ![b].pc = "read",
                                 ![b].stream = "opening",
                                 ![b].promise = "pending"]
       /\ fx' = [fx EXCEPT ![b] =
                    @ \o <<Progress(batch[b].archivesToCheck[i].name, batch[b].pos, len),
                           ReadStarted(i, batch[b].archivesToCheck[i].name)>>]
    /\ UNCHANGED <<activeGameId, pluginInfo, mods, discovery, disk, sortTies, dialog, started>>

MapperStart(b) ==
    /\ batch[b].pc = "map"
    /\ LET archive == batch[b].archivesToCheck[batch[b].idx]
           len     == Len(batch[b].archivesToCheck)
       IN
       \* progress(archive.name)
       /\ notifications' = [notifications EXCEPT !["checking-archives-all"] =
              Some([owner |-> b, kind |-> "activity", name |-> archive.name,
                    num |-> batch[b].pos * 100, den |-> len])]
       \* streamArchiveVersion(...): fs.createReadStream, new Promise
       /\ batch' = [batch EXCEPT ![b].pos = @ + 1,
                                 ![b].pc = "read",
                                 ![b].stream = "opening",
                                 ![b].promise = "pending"]
       /\ fx' = [fx EXCEPT ![b] = @ \o <<Progress(archive.name, batch[b].pos, len),
                                         ReadStarted(batch[b].idx, archive.name)>>]
    /\ UNCHANGED <<activeGameId, pluginInfo, mods, discovery, disk, sortTies, dialog, started>>

-----------------------------------------------------------------------------
(* The promise of streamArchiveVersion resolves: .finally destroys the     *)
(* stream and the mapper goes on after its await (lines 135-147, 261).     *)

\* a variant that reports nothing while an error notification is shown
MapperResultUnlessShown(b, version) ==
    LET archive  == batch[b].archivesToCheck[batch[b].idx]
        gameData == Get(batch[b].gameData)
        plugins  == batch[b].plugins
        plugin   == Find(plugins, {i \in 1..Len(plugins) : plugins[i].name = archive.plugin})
        mod      == IF IsSome(plugin) THEN ModOf(batch[b].mods, Get(plugin)) ELSE None
    IN  IF version = gameData.version \/ IsSome(notifications["archive-errors"])
        THEN None
        ELSE Some([ name         |-> archive.name,
                    version      |-> version,
                    validVersion |-> gameData.version,
                    plugin       |-> plugin,
                    mod          |-> mod ])

\* the mapper's return value for a version
MapperResult(b, version) ==
    LET archive  == batch[b].archivesToCheck[batch[b].idx]
        gameData == Get(batch[b].gameData)
        plugins  == batch[b].plugins
        plugin   == Find(plugins, {i \in 1..Len(plugins) : plugins[i].name = archive.plugin})
        mod      == IF IsSome(plugin) THEN ModOf(batch[b].mods, Get(plugin)) ELSE None
    IN  IF version = gameData.version THEN None
        ELSE Some([ name         |-> archive.name,
                    version      |-> version,
                    validVersion |-> gameData.version,
                    plugin       |-> plugin,
                    mod          |-> mod ])

\* batch b after its current read resolved to version
Resolved(b, version) ==
    LET last == batch[b].idx = Len(batch[b].archivesToCheck)
    IN  [batch[b] EXCEPT !.stream = "closed",
                         !.promise = "resolved",
                         !.results = Append(@, MapperResult(b, version)),
                         !.idx = @ + 1,
                         !.pc = IF last THEN "finish" ELSE "map"]

-----------------------------------------------------------------------------
(* The events of the read stream (lines 244-258)                           *)

\* the file is opened, or the open fails: 'error', resolve(0)
StreamOpen(b) ==
    /\ batch[b].pc = "read"
    /\ batch[b].stream = "opening"
    /\ LET file == FileAt(ArchivePath(b))
       IN  IF file.kind = "ENOENT"
           THEN /\ batch' = [batch EXCEPT ![b] = Resolved(b, 0)]
                /\ fx' = [fx EXCEPT ![b] = Append(@, ReadResolved(batch[b].idx, 0))]
           ELSE /\ batch' = [batch EXCEPT ![b].stream = "open"]
                /\ fx' = fx
    /\ UNCHANGED <<activeGameId, pluginInfo, mods, discovery, disk, sortTies, dialog, started,
                   notifications>>

\* the read completes: 'error' and resolve(0); or 'data' and resolve(version);
\* or, for a file with no bytes, 'end' alone, which no handler listens to: the
\* stream closes itself and the promise stays pending
StreamRead(b) ==
    /\ batch[b].pc = "read"
    /\ batch[b].stream = "open"
    /\ \E file \in {FileAt(ArchivePath(b))} :
       \E chunk \in {ReadChunk(file.bytes)} :
           IF file.kind = "EIO"
           THEN /\ batch' = [batch EXCEPT ![b] = Resolved(b, 0)]
                /\ fx' = [fx EXCEPT ![b] = Append(@, ReadResolved(batch[b].idx, 0))]
           ELSE IF chunk = <<>>
           THEN /\ batch' = [batch EXCEPT ![b].stream = "closed"]
                /\ fx' = fx
           ELSE \E version \in {VersionOfChunk(chunk)} :
                /\ batch' = [batch EXCEPT ![b] = Resolved(b, version)]
                /\ fx' = [fx EXCEPT ![b] = Append(@, ReadResolved(batch[b].idx, version))]
    /\ UNCHANGED <<activeGameId, pluginInfo, mods, discovery, disk, sortTies, dialog, started,
                   notifications>>

-----------------------------------------------------------------------------
(* mapSeries is through: dismissal and result (lines 153-176)              *)

\* a variant that notifies whatever was found
AlwaysNotify(issues) == TRUE

\* if (issues.length)
HasIssues(issues) == Len(issues) > 0

Finish(b) ==
    /\ batch[b].pc = "finish"
    /\ LET issues == Issues(batch[b].results)
       IN
       /\ batch' = [batch EXCEPT ![b].pc = "done"]
       /\ IF HasIssues(issues)
          THEN /\ notifications' =
                    [notifications EXCEPT
                        !["checking-archives-all"] = None,
                        !["archive-errors"] =
                            Some([owner |-> b, kind |-> "error", name |-> <<>>,
                                  num |-> Len(issues), den |-> 1])]
               /\ fx' = [fx EXCEPT ![b] = @ \o <<Dismissed("checking-archives-all"),
                                                 Sent(Len(issues))>>]
          ELSE /\ notifications' =
                    [notifications EXCEPT !["checking-archives-all"] = None]
               /\ fx' = [fx EXCEPT ![b] =
                            @ \o <<Dismissed("checking-archives-all"),
                                   Logged("debug", Len(batch[b].archivesToCheck))>>]
    /\ UNCHANGED <<activeGameId, pluginInfo, mods, discovery, disk, sortTies, dialog, started>>

-----------------------------------------------------------------------------
(* The action 'More' of the notification: showMultiErrorDetailsDialog      *)
(* (lines 169-172, 185-240)                                                *)

\* a || b on strings: the empty string is falsy
OrElse(a, b) == IF a # "" THEN a ELSE b

\* Array.prototype.join on a list of non-empty strings: the pieces of the
\* joined string, which is empty exactly if there are none
RECURSIVE Join(_, _)
Join(names, sep) ==
    IF Len(names) <= 1 THEN names
    ELSE <<names[1], sep>> \o Join(Tail(names), sep)

\* groupedErrors after the first n issues: an object that starts as
\* {noMod: []}; keys are the keys in the order they were added, group the
\* array under each key
RECURSIVE GroupedErrorsUpTo(_, _)
GroupedErrorsUpTo(issues, n) ==
    IF n = 0 THEN [keys |-> <<"noMod">>, group |-> ("noMod" :> <<>>)]
    ELSE LET g   == GroupedErrorsUpTo(issues, n - 1)
             cur == issues[n]
         IN  IF IsSome(cur.mod)
             THEN LET id == Get(cur.mod).id
                      h  == IF id \in DOMAIN g.group THEN g
                            ELSE [keys  |-> Append(g.keys, id),
                                  group |-> g.group @@ (id :> <<>>)]
                  IN  [h EXCEPT !.group[id] = Append(@, cur)]
             ELSE [g EXCEPT !.group["noMod"] = Append(@, cur)]

GroupedErrors(issues) == GroupedErrorsUpTo(issues, Len(issues))

\* a variant that names the game the archive was checked for
GamesChecked(a) ==
    LET Same(g) == g.version = a.validVersion
        games   == SelectSeq(archiveData, Same)
        joined  == Join([i \in 1..Len(games) |-> games[i].gameName], "/")
    IN  IF joined # <<>> THEN joined ELSE <<"an unknown game">>

\* archiveData.filter(g => g.version === a.version).map(g => g.gameName)
\*     .join('/') || t('an unknown game')
Games(a) ==
    LET Same(g) == g.version = a.version
        games   == SelectSeq(archiveData, Same)
        joined  == Join([i \in 1..Len(games) |-> games[i].gameName], "/")
    IN  IF joined # <<>> THEN joined ELSE <<"an unknown game">>

\* attr.customName || attr.logicalFileName || attr.name || mod.id
ModNameOf(mod) ==
    OrElse(mod.attributes.customName,
           OrElse(mod.attributes.logicalFileName,
                  OrElse(mod.attributes.name, mod.id)))

\* errorsByMod: per key of groupedErrors, '' for a group without issues, and
\* else the heading's mod name and the list entries of the group
ErrorsByMod(issues) ==
    LET grouped == GroupedErrors(issues)
        Entry(key) ==
            LET group == grouped.group[key]
                mod   == IF key # "noMod" THEN Get(group[1].mod)
                         ELSE [id |-> "",
                               attributes |-> [customName |-> "",
                                               logicalFileName |-> "",
                                               name |-> ""]]
            IN  IF group = <<>> THEN None
                ELSE Some([ key     |-> key,
                            modName |-> ModNameOf(mod),
                            group   |-> group,
                            archiveErrors |->
                               [i \in 1..Len(group) |->
                                   [name   |-> group[i].name,
                                    plugin |-> Get(group[i].plugin).name,
                                    games  |-> Games(group[i])]] ])
    IN  [k \in 1..Len(grouped.keys) |-> Entry(grouped.keys[k])]

\* the user takes the action 'More' of the notification invocation b has
\* sent; a.plugin.name throws for an issue without plugin, and no dialog opens
ShowDetails(b) ==
    /\ IsSome(notifications["archive-errors"])
    /\ Get(notifications["archive-errors"]).owner = b
    /\ LET issues   == Issues(batch[b].results)
           gameData == Get(batch[b].gameData)
       IN  IF \E i \in 1..Len(issues) : ~IsSome(issues[i].plugin)
           THEN dialog' = dialog
           ELSE dialog' = Some([ owner       |-> b,
                                 thisGame    |-> gameData.gameName,
                                 errorsByMod |-> ErrorsByMod(issues),
                                 ext         |-> gameData.type,
                                 ver         |-> gameData.version ])
    /\ UNCHANGED <<activeGameId, pluginInfo, mods, discovery, disk, sortTies,
                   started, batch, notifications, fx>>

Step(b) ==
    \/ StateChange(b)
    \/ ReaddirDone(b)
    \/ MapperStart(b)
    \/ StreamOpen(b)
    \/ StreamRead(b)
    \/ Finish(b)
    \/ ShowDetails(b)

Next == \E b \in Batches : Step(b)

-----------------------------------------------------------------------------
(* The inputs: names, files, plugin states.                                *)

Foo_esp          == <<"F","o","o",".","e","s","p">>
Foo_esm          == <<"F","o","o",".","e","s","m">>
foo_bsa          == <<"f","o","o",".","b","s","a">>
foo_textures_bsa == <<"f","o","o"," ","-"," ","t","e","x","t","u","r","e","s",".","b","s","a">>
FOO_BSA          == <<"F","O","O",".","B","S","A">>
barfoo_bsa       == <<"b","a","r","f","o","o",".","b","s","a">>
barfoo_esp       == <<"b","a","r","f","o","o",".","e","s","p">>

GamePath == <<"C",":","\\","S","k","y","r","i","m">>

\* files: one that cannot be opened, one that cannot be read, and readable ones
Unopenable  == [kind |-> "ENOENT", bytes |-> <<>>]
Unreadable  == [kind |-> "EIO",    bytes |-> <<>>]
FileOf(bytes) == [kind |-> "file", bytes |-> bytes]
EmptyFile   == FileOf(<<>>)
\* "BSA\0", the version as a little-endian uint32, the offset of the records
BsaHeader(v) == FileOf(<<66, 83, 65, 0, v, 0, 0, 0, 36, 0>>)
\* the same header cut after 8 bytes
CutHeader(v) == FileOf(<<66, 83, 65, 0, v, 0, 0, 0>>)

FileKinds == {Unopenable, Unreadable, EmptyFile, CutHeader(104),
              BsaHeader(104), BsaHeader(105)}

DataFiles == <<foo_bsa, foo_textures_bsa, FOO_BSA, barfoo_bsa>>

\* the data folder: a listing that fails or gives DataFiles, and the files
Disks ==
    { [listing |-> l, files |-> f] :
        l \in {None, Some(DataFiles)},
        f \in { (foo_bsa :> a) @@ (foo_textures_bsa :> c) @@
                (FOO_BSA :> BsaHeader(104)) @@ (barfoo_bsa :> BsaHeader(104)) :
                  a \in FileKinds, c \in {EmptyFile, BsaHeader(104), BsaHeader(105)} } }

Plugin(name, isNative, loadsArchive, enabled, loadOrder, modName) ==
    [name |-> name, isNative |-> isNative, loadsArchive |-> loadsArchive,
     enabled |-> enabled, loadOrder |-> loadOrder, modName |-> modName]

FirstPlugins ==
    { Plugin(Foo_esp, n, l, e, 1, "m1") : n \in BOOLEAN, l \in BOOLEAN, e \in BOOLEAN }

SecondPlugins ==
    { Plugin(name, FALSE, TRUE, e, lo, m) :
        name \in {Foo_esp, Foo_esm}, e \in BOOLEAN, lo \in {0, 1, 2}, m \in {"m1", ""} }

\* the plugin info of one invocation: none, one plugin, or two
PluginInfos ==
    {None} \cup { Some(<<p>>) : p \in FirstPlugins }
           \cup { Some(<<p, q>>) : p \in FirstPlugins, q \in SecondPlugins }

\* the plugin info of overlapping invocations: none, or the one plugin
\* Foo.esp that loads archives, enabled or not
PluginInfosOverlap ==
    {None} \cup { Some(<<Plugin(Foo_esp, FALSE, TRUE, e, 1, "m1")>>) : e \in BOOLEAN }

\* the plugin info of two invocations: Foo.esp and Foo.esm of the same
\* loadOrder, or barfoo.esp with a loadOrder before that of Foo.esp
PluginInfosTwice ==
    { Some(<<Plugin(Foo_esp, FALSE, TRUE, TRUE, 1, "m1"),
             Plugin(Foo_esm, FALSE, TRUE, TRUE, 1, "")>>),
      Some(<<Plugin(Foo_esp, FALSE, TRUE, TRUE, 1, "m1"),
             Plugin(barfoo_esp, FALSE, TRUE, TRUE, 0, "m1")>>) }

\* a mod record: its id and the attributes the dialog reads
Mod(id, customName, logicalFileName, name) ==
    [id |-> id,
     attributes |-> [customName |-> customName,
                     logicalFileName |-> logicalFileName,
                     name |-> name]]

\* the mods of the active game, by id: one of them has the id noMod
ModTable ==
    ("m1" :> Mod("m1", "", "", "Mod One")) @@
    ("m2" :> Mod("m2", "My Mod", "mod2.7z", "Mod Two")) @@
    ("noMod" :> Mod("noMod", "", "", ""))

\* the plugin info of an invocation whose issues are shown: Foo.esp and
\* Foo.esm, each of no mod or of one of the mods
PluginInfosReport ==
    { Some(<<Plugin(Foo_esp, FALSE, TRUE, TRUE, 1, m),
             Plugin(Foo_esm, FALSE, TRUE, TRUE, 2, n)>>) :
        m \in {"", "m1", "m2", "noMod"}, n \in {"", "m1", "m2", "noMod"} }

\* the data folder of such an invocation: archives of the versions of the
\* table, and one that cannot be opened
DisksReport ==
    { [listing |-> Some(DataFiles), files |-> f] :
        f \in { (foo_bsa :> a) @@ (foo_textures_bsa :> c) @@
                (FOO_BSA :> BsaHeader(104)) @@ (barfoo_bsa :> BsaHeader(104)) :
                  a \in {Unopenable, BsaHeader(1), BsaHeader(104), BsaHeader(105)},
                  c \in {BsaHeader(1), BsaHeader(103), BsaHeader(105)} } }

ByteVals == {0, 1, 255}

\* every file of at most MaxFileLen bytes, and the two that fail
ReaderFiles ==
    {Unopenable, Unreadable} \cup
    { FileOf(bytes) : bytes \in UNION { [1..n -> ByteVals] : n \in 0..MaxFileLen } }

-----------------------------------------------------------------------------
(* The specifications.                                                     *)

NoBatches ==
    /\ started = 0
    /\ batch = [b \in Batches |-> IdleBatch]
    /\ notifications = [id \in NotificationIds |-> None]
    /\ fx = [b \in Batches |-> <<>>]
    /\ dialog = None

\* Spec: NumBatches state changes, whose invocations of checkForErrors overlap.
Init ==
    /\ activeGameId \in {"skyrimse", "morrowind"}
    /\ pluginInfo \in PluginInfosOverlap
    /\ mods = ModTable
    /\ discovery \in {None, Some(GamePath)}
    /\ disk \in Disks
    /\ sortTies \in SortTies
    /\ NoBatches

Spec == Init /\ [][Next]_vars

\* SpecOne: one state change and its invocation, on every plugin info.
InitOne ==
    /\ activeGameId \in {"skyrimse", "morrowind"}
    /\ pluginInfo \in PluginInfos
    /\ mods = ModTable
    /\ discovery \in {None, Some(GamePath)}
    /\ disk \in Disks
    /\ sortTies \in SortTies
    /\ NoBatches

NextOne == Step(1)

SpecOne == InitOne /\ [][NextOne]_vars

\* SpecTwice: two state changes, whose invocations overlap or follow each
\* other, on plugin infos of two plugins.
InitTwice ==
    /\ activeGameId = "skyrimse"
    /\ pluginInfo \in PluginInfosTwice
    /\ mods = ModTable
    /\ discovery = Some(GamePath)
    /\ disk \in Disks
    /\ sortTies \in SortTies
    /\ NoBatches

NextTwice == Step(1) \/ Step(2)

SpecTwice == InitTwice /\ [][NextTwice]_vars

\* SpecReport: one state change and its invocation, and the dialog of its
\* issues, on plugins of every mod and archives of every version of the table.
InitReport ==
    /\ activeGameId = "skyrimse"
    /\ pluginInfo \in PluginInfosReport
    /\ mods = ModTable
    /\ discovery = Some(GamePath)
    /\ disk \in DisksReport
    /\ sortTies \in SortTies
    /\ NoBatches

SpecReport == InitReport /\ [][NextOne]_vars

\* SpecReader: one call of streamArchiveVersion, on every file. It starts where
\* the mapper of the first candidate has called it.
InitReader ==
    /\ activeGameId = "skyrimse"
    /\ pluginInfo = Some(<<Plugin(Foo_esp, FALSE, TRUE, TRUE, 1, "m1")>>)
    /\ mods = ModTable
    /\ discovery = Some(GamePath)
    /\ \E file \in ReaderFiles :
          disk = [listing |-> Some(<<foo_bsa>>), files |-> (foo_bsa :> file)]
    /\ sortTies = "keep"
    /\ dialog = None
    /\ started = 1
    /\ batch = [b \in Batches |->
          IF b # 1 THEN IdleBatch
          ELSE [IdleBatch EXCEPT
                  !.pc = "read",
                  !.game = "skyrimse",
                  !.gameData = GameDataOf("skyrimse"),
                  !.pluginsObj = pluginInfo,
                  !.alone = TRUE,
                  !.plugins = Get(pluginInfo),
                  !.archiveLoaders = Get(pluginInfo),
                  !.mods = ModTable,
                  !.dataFolder = DataFolderOf(Some(GamePath)),
                  !.archivesToCheck = <<[name |-> foo_bsa, plugin |-> Foo_esp]>>,
                  !.pos = 1,
                  !.idx = 1,
                  !.stream = "opening",
                  !.promise = "pending"]]
    /\ notifications = [id \in NotificationIds |->
          IF id = "checking-archives-all"
          THEN Some([owner |-> 1, kind |-> "activity", name |-> foo_bsa,
                     num |-> 0, den |-> 1])
          ELSE None]
    /\ fx = [b \in Batches |->
          IF b # 1 THEN <<>>
          ELSE <<Dismissed("archive-errors"), Progress(foo_bsa, 0, 1),
                 ReadStarted(1, foo_bsa)>>]

NextReader == StreamOpen(1) \/ StreamRead(1)

SpecReader == InitReader /\ [][NextReader]_vars

-----------------------------------------------------------------------------
(* What the properties below read off a state.                             *)

Range(s) == {s[i] : i \in 1..Len(s)}

\* the effects of invocation b with the given op
EffectsOf(b, op) == LET Is(e) == e.op = op IN SelectSeq(fx[b], Is)

\* the version the read of candidate i of invocation b resolved to, if it has
ResolvedVersions(b, i) ==
    {e.den : e \in {x \in Range(fx[b]) : x.op = "readResolved" /\ x.num = i}}

\* the file streamArchiveVersion is called on under SpecReader
ReaderFile == disk.files[foo_bsa]

\* the game ids of the table, and the version the table gives a game
TableIds == {archiveData[i].gameId : i \in 1..Len(archiveData)}
TableVersion(id) ==
    (CHOOSE g \in Range(archiveData) : g.gameId = id).version

-----------------------------------------------------------------------------
\* C1: for a readable file of at least 9 bytes, streamArchiveVersion resolves,
\* and to the sum of the bytes at offsets 4, 5, 6 and 7, whatever the other
\* bytes are.
C1_LongFileGivesByteSum ==
    (ReaderFile.kind = "file" /\ Len(ReaderFile.bytes) >= 9 /\ batch[1].stream = "closed")
    => /\ batch[1].promise = "resolved"
       /\ ResolvedVersions(1, 1) =
            { ReaderFile.bytes[5] + ReaderFile.bytes[6]
              + ReaderFile.bytes[7] + ReaderFile.bytes[8] }

\* a 10-byte file whose bytes outside the window are all 255 and whose window
\* sums to 2 has been read, and 2 it is
C1_Witness ==
    /\ ReaderFile.kind = "file"
    /\ Len(ReaderFile.bytes) = 10
    /\ \A i \in {1, 2, 3, 4, 9, 10} : ReaderFile.bytes[i] = 255
    /\ batch[1].promise = "resolved"
    /\ ResolvedVersions(1, 1) = {2}

\* C2: for a file that cannot be opened, cannot be read, or has fewer than 9
\* bytes, streamArchiveVersion resolves to 0: once the stream is closed the
\* promise is resolved, and to 0.
C2_ShortOrUnreadableGivesZero ==
    ((ReaderFile.kind # "file" \/ Len(ReaderFile.bytes) < 9) /\ batch[1].stream = "closed")
    => /\ batch[1].promise = "resolved"
       /\ ResolvedVersions(1, 1) = {0}

-----------------------------------------------------------------------------
\* the name with its extension cut off its end
StripExt(name) == SubSeq(name, 1, Len(name) - Len(extname(name)))

\* the match the specification describes
SpecMatch(pluginName, file) ==
    /\ toLowerCase(extname(file)) \in { <<".", "b", "s", "a">>, <<".", "b", "a", "2">> }
    /\ startsWith(toLowerCase(basename(file)), toLowerCase(StripExt(pluginName)))

\* invocation b has listed the data folder and derived its candidates
Correlated(b) ==
    /\ batch[b].pc \in {"map", "read", "finish", "done"}
    /\ IsSome(batch[b].gameData)
    /\ IsSome(batch[b].dataFolder)
    /\ IsSome(disk.listing)

\* C3: there is a candidate (file, plugin) for a qualifying plugin and a file of
\* the data folder exactly when the file's extension is .bsa or .ba2 in any case
\* and its lower-cased base name starts with the plugin's lower-cased name
\* without its extension.
C3_CandidateIffSpecMatch ==
    \A b \in Batches :
        Correlated(b) =>
            \A p \in Range(batch[b].archiveLoaders), f \in Range(Get(disk.listing)) :
                ([name |-> f, plugin |-> p.name] \in Range(batch[b].archivesToCheck))
                    <=> SpecMatch(p.name, f)

-----------------------------------------------------------------------------
\* C4: every issue belongs to a candidate whose plugin is enabled, non-native
\* and archive-loading, its version differs from its validVersion, which is the
\* table's version of the active game; and a candidate whose read resolved to
\* that version has no issue.
C4_IssuesOnlyForLoadersOnMismatch ==
    \A b \in Batches :
        \A i \in 1..Len(batch[b].results) :
            LET archive == batch[b].archivesToCheck[i]
                result  == batch[b].results[i]
                valid   == TableVersion(batch[b].game)
            IN  /\ batch[b].game \in TableIds
                /\ (result = None) <=> (ResolvedVersions(b, i) = {valid})
                /\ IsSome(result) =>
                     /\ Get(result).name = archive.name
                     /\ ResolvedVersions(b, i) = {Get(result).version}
                     /\ Get(result).version # Get(result).validVersion
                     /\ Get(result).validVersion = valid
                     /\ \E p \in Range(batch[b].plugins) :
                            /\ p.name = archive.plugin
                            /\ p.enabled /\ ~p.isNative /\ p.loadsArchive

\* an invocation is through with one issue and one candidate without
C4_Witness ==
    /\ batch[1].pc = "done"
    /\ \E i, j \in 1..Len(batch[1].results) :
          IsSome(batch[1].results[i]) /\ batch[1].results[j] = None

-----------------------------------------------------------------------------
\* C5: an invocation whose active game is not in the table has no progress
\* event and no notification, and reads nothing.
C5_UnsupportedGameIsSilent ==
    \A b \in Batches :
        (batch[b].pc # "idle" /\ batch[b].game \notin TableIds)
        => /\ batch[b].pc = "done"
           /\ \A e \in Range(fx[b]) : e.op = "dismissNotification"
           /\ \A id \in NotificationIds :
                 IsSome(notifications[id]) => Get(notifications[id]).owner # b

\* the game is not in the table, although a plugin of the invocation qualifies
\* and the data folder has an archive for it
C5_Witness ==
    /\ batch[1].pc = "done"
    /\ activeGameId = "morrowind"
    /\ IsSome(pluginInfo)
    /\ \E p \in Range(Get(pluginInfo)) : p.enabled /\ ~p.isNative /\ p.loadsArchive
    /\ IsSome(discovery)
    /\ IsSome(disk.listing)

-----------------------------------------------------------------------------
\* C6: an invocation that has emitted a progress event emits the dismissal of
\* 'checking-archives-all' in the end: as long as it has not, it has a step to
\* take.
C6_ProgressLeadsToDismissal ==
    \A b \in Batches :
        ( /\ EffectsOf(b, "addNotification") # <<>>
          /\ Dismissed("checking-archives-all") \notin Range(fx[b]) )
        => ENABLED Step(b)

-----------------------------------------------------------------------------
\* C7: an invocation sends 'archive-errors' only with at least one issue; one
\* that is through its candidates has sent it if it has an issue, and has
\* otherwise sent nothing and written one debug log entry.
C7_NotifiesIffIssues ==
    \A b \in Batches :
        LET issues == Issues(batch[b].results)
            sent   == EffectsOf(b, "sendNotification")
        IN  /\ sent # <<>> => Len(issues) >= 1
            /\ (batch[b].pc = "done" /\ batch[b].archivesToCheck # <<>>)
               => /\ Len(issues) >= 1 => sent = <<Sent(Len(issues))>>
                  /\ Len(issues) = 0 =>
                        /\ sent = <<>>
                        /\ EffectsOf(b, "log") =
                              <<Logged("debug", Len(batch[b].archivesToCheck))>>

\* an invocation is through its candidates without an issue
C7_Witness ==
    /\ batch[1].pc = "done"
    /\ Len(batch[1].archivesToCheck) = 2
    /\ Issues(batch[1].results) = <<>>
    /\ EffectsOf(1, "sendNotification") = <<>>

-----------------------------------------------------------------------------
\* C8: once every invocation made is through, no 'checking-archives-all' is
\* shown, and 'archive-errors' is shown exactly if the invocation made last has
\* sent it, and is then its own.
C8_LastBatchOwnsWhatIsShown ==
    (started >= 1 /\ \A b \in 1..started : batch[b].pc = "done")
    => /\ notifications["checking-archives-all"] = None
       /\ IsSome(notifications["archive-errors"])
            <=> EffectsOf(started, "sendNotification") # <<>>
       /\ IsSome(notifications["archive-errors"])
            => Get(notifications["archive-errors"]).owner = started

-----------------------------------------------------------------------------
\* C9: the read of a candidate begins only after the read of the candidate
\* before it has resolved, and the reads begin in candidate order.
C9_ReadsOneAfterTheOther ==
    \A b \in Batches :
        \A k \in 1..Len(fx[b]) :
            (fx[b][k].op = "readStart" /\ fx[b][k].num > 1)
            => \E j \in 1..(k - 1) :
                  /\ fx[b][j].op = "readResolved"
                  /\ fx[b][j].num = fx[b][k].num - 1

\* the read of the second candidate has begun
C9_Witness ==
    \E e \in Range(fx[1]) : e.op = "readStart" /\ e.num = 2

-----------------------------------------------------------------------------
\* C10: an invocation for a game of the table, with plugin info, whose data
\* folder path is undefined or whose folder cannot be listed, ends with no
\* progress event, no notification and exactly one log entry.
C10_ListingFailureLogsOnce ==
    \A b \in Batches :
        ( /\ batch[b].pc = "done"
          /\ batch[b].game \in TableIds
          /\ IsSome(pluginInfo)
          /\ ~IsSome(discovery) \/ ~IsSome(disk.listing) )
        => /\ EffectsOf(b, "addNotification") = <<>>
           /\ EffectsOf(b, "sendNotification") = <<>>
           /\ EffectsOf(b, "readStart") = <<>>
           /\ EffectsOf(b, "log") = <<Logged("error", 0)>>
           /\ \A id \in NotificationIds :
                 IsSome(notifications[id]) => Get(notifications[id]).owner # b

\* the path is undefined while the folder could be listed and has an archive
\* of an enabled plugin
C10_Witness ==
    /\ batch[1].pc = "done"
    /\ activeGameId = "skyrimse"
    /\ ~IsSome(discovery)
    /\ IsSome(disk.listing)
    /\ IsSome(pluginInfo)
    /\ \E p \in Range(Get(pluginInfo)) : p.enabled /\ ~p.isNative /\ p.loadsArchive

-----------------------------------------------------------------------------
\* C11: an invocation that is through its candidates has, for an archive of the
\* listing whose read resolved to another version than the game's, as many
\* issues as its plugin info has enabled, non-native, archive-loading plugins
\* whose name the archive's name starts with, and as many per plugin name as
\* there are such plugins of that name; for an archive whose read resolved to
\* the game's version it has none.
C11_OneIssuePerMatchingLoader ==
    \A b \in Batches :
        (Correlated(b) /\ batch[b].pc \in {"finish", "done"}) =>
            \A a \in Range(DataArchives(Get(disk.listing))) :
                LET obj      == Get(batch[b].pluginsObj)
                    issues   == Issues(batch[b].results)
                    cands    == batch[b].archivesToCheck
                    matching == {i \in 1..Len(obj) :
                                    IsArchiveLoader(obj[i]) /\ MatchesPlugin(a, obj[i])}
                    forA     == {i \in 1..Len(issues) : issues[i].name = a}
                    mismatch == \E i \in 1..Len(cands) :
                                    /\ cands[i].name = a
                                    /\ ResolvedVersions(b, i) # {TableVersion(batch[b].game)}
                IN  IF matching # {} /\ mismatch
                    THEN /\ Cardinality(forA) = Cardinality(matching)
                         /\ \A n \in {obj[i].name : i \in matching} :
                              Cardinality({i \in forA : Get(issues[i].plugin).name = n})
                                = Cardinality({i \in matching : obj[i].name = n})
                    ELSE forA = {}

\* two enabled plugins of different names match foo.bsa, whose version is not
\* the game's, and the invocation is through with two issues for it
C11_Witness ==
    /\ batch[1].pc = "done"
    /\ LET issues == Issues(batch[1].results)
       IN  \E i, j \in 1..Len(issues) :
              /\ i < j
              /\ issues[i].name = foo_bsa
              /\ issues[j].name = foo_bsa
              /\ Get(issues[i].plugin).name # Get(issues[j].plugin).name

-----------------------------------------------------------------------------
-----------------------------------------------------------------------------
\* the issues the dialog is about, and its groups: the entries of errorsByMod
\* that are not ''
DialogIssues == Issues(batch[Get(dialog).owner].results)
DialogGroups ==
    LET entries == SelectSeq(Get(dialog).errorsByMod, IsSome)
    IN  [i \in 1..Len(entries) |-> Get(entries[i])]

\* C13: the groups of the dialog partition the issues: every issue is in
\* exactly one group, each group has its issues in the detector's order, two
\* issues of the same mod id are in the same group, an issue without mod is in
\* the group of the key noMod, and an issue with a mod is not.
C13_GroupsPartitionIssues ==
    IsSome(dialog) =>
        LET issues == DialogIssues
            groups == DialogGroups
            GroupsOf(x) == {k \in 1..Len(groups) : x \in Range(groups[k].group)}
        IN  /\ \A x \in Range(issues) : Cardinality(GroupsOf(x)) = 1
            /\ \A k \in 1..Len(groups) :
                  LET In(x) == x \in Range(groups[k].group)
                  IN  /\ groups[k].group # <<>>
                      /\ groups[k].group = SelectSeq(issues, In)
            /\ \A x, y \in Range(issues) :
                  (IsSome(x.mod) /\ IsSome(y.mod) /\ Get(x.mod).id = Get(y.mod).id)
                  => GroupsOf(x) = GroupsOf(y)
            /\ \A x \in Range(issues), k \in 1..Len(groups) :
                  x \in Range(groups[k].group)
                  => (groups[k].key = "noMod" <=> ~IsSome(x.mod))

\* the same without the last part: what holds of the groups for every mod id
C13_GroupsPartitionIssuesByKey ==
    IsSome(dialog) =>
        LET issues == DialogIssues
            groups == DialogGroups
            GroupsOf(x) == {k \in 1..Len(groups) : x \in Range(groups[k].group)}
        IN  /\ \A x \in Range(issues) : Cardinality(GroupsOf(x)) = 1
            /\ \A k \in 1..Len(groups) :
                  LET In(x) == x \in Range(groups[k].group)
                  IN  groups[k].group = SelectSeq(issues, In)
            /\ \A x, y \in Range(issues) :
                  (IsSome(x.mod) /\ IsSome(y.mod) /\ Get(x.mod).id = Get(y.mod).id)
                  => GroupsOf(x) = GroupsOf(y)

-----------------------------------------------------------------------------
\* where in fx[b] the k-th effect with the given op is
PosOf(b, op, k) ==
    CHOOSE j \in 1..Len(fx[b]) :
        /\ fx[b][j].op = op
        /\ Cardinality({h \in 1..(j - 1) : fx[b][h].op = op}) = k - 1

\* C14: an invocation has one progress event per candidate whose read it has
\* begun, M of them once it is through its M candidates; the event of candidate
\* i (from 0) comes before the read of candidate i begins and after the read of
\* the candidate before began, names the archive of candidate i and has the
\* value i*100/M, which lies in 0..100 and is not less than the value before.
C14_OneProgressPerCandidate ==
    \A b \in Batches :
        LET prog   == EffectsOf(b, "addNotification")
            starts == EffectsOf(b, "readStart")
            M      == Len(batch[b].archivesToCheck)
        IN  /\ Len(prog) = Len(starts)
            /\ Len(prog) <= M
            /\ batch[b].pc \in {"finish", "done"} => Len(prog) = M
            /\ \A k \in 1..Len(prog) :
                  /\ prog[k].name = batch[b].archivesToCheck[k].name
                  /\ starts[k].name = prog[k].name
                  /\ starts[k].num = k
                  /\ prog[k].den = M
                  /\ prog[k].num = (k - 1) * 100
                  /\ 0 <= prog[k].num /\ prog[k].num <= 100 * prog[k].den
                  /\ PosOf(b, "addNotification", k) < PosOf(b, "readStart", k)
                  /\ k > 1 =>
                       /\ PosOf(b, "readStart", k - 1) < PosOf(b, "addNotification", k)
                       /\ prog[k - 1].num * prog[k].den <= prog[k].num * prog[k - 1].den

\* an invocation is through its four candidates, with four progress events
C14_Witness ==
    /\ batch[1].pc = "done"
    /\ Len(batch[1].archivesToCheck) = 4
    /\ Len(EffectsOf(1, "addNotification")) = 4

-----------------------------------------------------------------------------
\* candidate j of invocation b is an archive that cannot be opened or read
UnreadableAt(b, j) == FileAt(batch[b].archivesToCheck[j].name).kind \in {"ENOENT", "EIO"}

\* C15: when the read of candidate j fails, the invocation has an issue of
\* version 0 for it, which is the version of no game of the table, and goes on:
\* as long as it has not dismissed 'checking-archives-all' it has a step to
\* take, and once it is through, every candidate after j has had its progress
\* event and its read.
C15_UnreadableIsReportedAndPassedBy ==
    \A b \in Batches :
        \A j \in 1..Len(batch[b].results) :
            UnreadableAt(b, j) =>
                /\ IsSome(batch[b].results[j])
                /\ Get(batch[b].results[j]).version = 0
                /\ \A g \in Range(archiveData) : g.version # 0
                /\ Dismissed("checking-archives-all") \notin Range(fx[b])
                      => ENABLED Step(b)
                /\ Dismissed("checking-archives-all") \in Range(fx[b])
                      => \A i \in (j + 1)..Len(batch[b].archivesToCheck) :
                            /\ Len(EffectsOf(b, "addNotification")) >= i
                            /\ ResolvedVersions(b, i) # {}

\* the same as far as the archive that fails and the archives that can be
\* read go: an invocation none of whose candidates is a file of no bytes
C15_UnreadableIsReportedUnlessEmpty ==
    \A b \in Batches :
        (\A i \in 1..Len(batch[b].archivesToCheck) :
            FileAt(batch[b].archivesToCheck[i].name) # EmptyFile)
        => \A j \in 1..Len(batch[b].results) :
              UnreadableAt(b, j) =>
                /\ IsSome(batch[b].results[j])
                /\ Get(batch[b].results[j]).version = 0
                /\ Dismissed("checking-archives-all") \notin Range(fx[b])
                      => ENABLED Step(b)

-----------------------------------------------------------------------------
\* the invocations whose read stream holds an open file handle
OpenHandles == {b \in Batches : batch[b].stream = "open"}

\* C16: at most one file handle is open at a time, whatever invocations are
\* under way; and a handle that is open is released: its stream has its read
\* to complete, which closes it, and an invocation whose read has settled
\* holds none.
C16_OneHandleAndReleased ==
    /\ Cardinality(OpenHandles) <= 1
    /\ \A b \in OpenHandles : batch[b].promise = "pending" /\ ENABLED StreamRead(b)
    /\ \A b \in Batches : batch[b].promise = "resolved" => batch[b].stream = "closed"

\* the second part alone: every handle that is open is released
C16_HandlesAreReleased ==
    /\ \A b \in OpenHandles : batch[b].promise = "pending" /\ ENABLED StreamRead(b)
    /\ \A b \in Batches : batch[b].promise = "resolved" => batch[b].stream = "closed"
    /\ \A b \in Batches : batch[b].pc \in {"finish", "done"} => b \notin OpenHandles

-----------------------------------------------------------------------------
\* the archives of the listing that plugin p matches, in the order of the
\* listing, as candidates of p
ListedFor(p) ==
    LET Hit(f) == IsDataArchive(f) /\ MatchesPlugin(f, p)
        hits   == SelectSeq(Get(disk.listing), Hit)
    IN  [k \in 1..Len(hits) |-> [name |-> hits[k], plugin |-> p.name]]

\* C17: the candidates are, for the enabled, non-native, archive-loading
\* plugins taken in an order of ascending loadOrder, the archives each plugin
\* matches in the order of the listing, one plugin after the other: a plugin
\* of less loadOrder has all its candidates before those of a plugin of more,
\* and the candidates of one plugin are not parted.
C17_CandidatesByLoadOrderThenListing ==
    \A b \in Batches :
        Correlated(b) =>
            LET loaders == SelectSeq(Get(batch[b].pluginsObj), IsArchiveLoader)
            IN  \E sorted \in SortedByLoadOrder(loaders) :
                   batch[b].archivesToCheck =
                       Concat([i \in 1..Len(sorted) |-> ListedFor(sorted[i])])

\* Foo.esm comes second in the plugin info and has the lesser loadOrder: its
\* two candidates come first, those of Foo.esp after them
C17_Witness ==
    /\ Correlated(1)
    /\ LET obj == Get(batch[1].pluginsObj)
       IN  /\ Len(obj) = 2
           /\ obj[1].name = Foo_esp /\ obj[2].name = Foo_esm
           /\ obj[2].loadOrder < obj[1].loadOrder
    /\ batch[1].archivesToCheck =
          << [name |-> foo_bsa,          plugin |-> Foo_esm],
             [name |-> foo_textures_bsa, plugin |-> Foo_esm],
             [name |-> foo_bsa,          plugin |-> Foo_esp],
             [name |-> foo_textures_bsa, plugin |-> Foo_esp] >>

-----------------------------------------------------------------------------
\* the names of the games of the table with the given version, in the order
\* of the table
GameNamesOf(version) ==
    LET Same(g) == g.version = version
        games   == SelectSeq(archiveData, Same)
    IN  [i \in 1..Len(games) |-> games[i].gameName]

\* C18: for every issue of the dialog, the games named are the games of the
\* table whose version is the issue's version, in the order of the table with
\* '/' between them, and 'an unknown game' exactly if there is none, as for
\* version 0; for version 104 it is the game skyrim alone.
C18_NamesGamesOfDetectedVersion ==
    IsSome(dialog) =>
        \A k \in 1..Len(DialogGroups) :
            LET entry == DialogGroups[k]
            IN  /\ Len(entry.archiveErrors) = Len(entry.group)
                /\ \A i \in 1..Len(entry.group) :
                      LET issue == entry.group[i]
                          games == entry.archiveErrors[i].games
                          names == GameNamesOf(issue.version)
                      IN  /\ entry.archiveErrors[i].name = issue.name
                          /\ names # <<>> =>
                                /\ Len(games) = 2 * Len(names) - 1
                                /\ \A n \in 1..Len(names) : games[2 * n - 1] = names[n]
                                /\ \A n \in 1..(Len(names) - 1) : games[2 * n] = "/"
                          /\ (names = <<>>) <=> (games = <<"an unknown game">>)
                          /\ issue.version = 0 => games = <<"an unknown game">>
                          /\ issue.version = 104 =>
                                games = <<(CHOOSE g \in Range(archiveData) :
                                              g.gameId = "skyrim").gameName>>

\* the dialog of skyrimse shows an archive of version 104 as one of Skyrim
\* (2011), and one of version 1 as one of the three Fallout games
C18_Witness ==
    /\ IsSome(dialog)
    /\ batch[Get(dialog).owner].game = "skyrimse"
    /\ LET shown == UNION { {e.archiveErrors[i].games : i \in 1..Len(e.archiveErrors)} :
                              e \in Range(DialogGroups) }
           versions == {x.version : x \in Range(DialogIssues)}
       IN  /\ versions = {104, 1}
           /\ shown = { <<"Skyrim (2011)">>,
                        <<"Fallout 4", "/", "Fallout 4 VR", "/", "Fallout 76">> }

-----------------------------------------------------------------------------
\* C19: every issue has a plugin, whose name is that of the candidate's plugin
\* and which is itself enabled, non-native and archive-loading, whatever the
\* plugin info, two plugins of one name included.
C19_IssueCarriesItsLoader ==
    \A b \in Batches :
        \A i \in 1..Len(batch[b].results) :
            IsSome(batch[b].results[i]) =>
                LET plugin == Get(batch[b].results[i]).plugin
                IN  /\ IsSome(plugin)
                    /\ Get(plugin).name = batch[b].archivesToCheck[i].plugin
                    /\ IsArchiveLoader(Get(plugin))

\* what holds for every plugin info: the issue has a plugin of the candidate's
\* plugin name, which the dialog can read the name of; and it is enabled,
\* non-native and archive-loading if no two plugins have that name
C19_IssueCarriesPluginOfThatName ==
    \A b \in Batches :
        \A i \in 1..Len(batch[b].results) :
            IsSome(batch[b].results[i]) =>
                LET plugin == Get(batch[b].results[i]).plugin
                    obj    == Get(batch[b].pluginsObj)
                    named  == {k \in 1..Len(obj) : obj[k].name = batch[b].archivesToCheck[i].plugin}
                IN  /\ IsSome(plugin)
                    /\ Get(plugin).name = batch[b].archivesToCheck[i].plugin
                    /\ Cardinality(named) = 1 => IsArchiveLoader(Get(plugin))

-----------------------------------------------------------------------------
\* C20: the first effect of every invocation is the dismissal of
\* 'archive-errors', also of one that returns early; and when the invocation
\* made last was called with no other under way and is through without having
\* sent 'archive-errors', no 'archive-errors' is shown.
C20_DismissesResultFirst ==
    /\ \A b \in Batches :
          batch[b].pc # "idle" =>
              /\ fx[b] # <<>>
              /\ fx[b][1] = Dismissed("archive-errors")
    /\ \A b \in Batches :
          ( /\ b = started
            /\ batch[b].alone
            /\ batch[b].pc = "done"
            /\ EffectsOf(b, "sendNotification") = <<>> )
          => notifications["archive-errors"] = None

\* the first invocation has sent 'archive-errors'; the second was called when
\* the first was through, for a plugin info without an enabled plugin, and
\* has returned early
C20_Witness ==
    /\ EffectsOf(1, "sendNotification") # <<>>
    /\ batch[2].alone
    /\ batch[2].pc = "done"
    /\ batch[2].archivesToCheck = <<>>
    /\ fx[2] = <<Dismissed("archive-errors")>>

=============================================================================
